---- MODULE Spec2Model ----
(***************************************************************************)
(* Realtime voice-coach adapter of chefs-compass: the playback scheduler,  *)
(* the capture pipeline and the session lifecycle of src/App.tsx, driven   *)
(* by the inbound dispatch of src/services/geminiService.ts.               *)
(*                                                                         *)
(* Time is counted in ticks of 0.5 s of AudioContext.currentTime.          *)
(*                                                                         *)
(* JavaScript runs one task at a time.  `await decodeAudioData(...)` in    *)
(* onAudio awaits an async function that itself never awaits, so the rest  *)
(* of onAudio is a microtask: it runs after the synchronous remainder of   *)
(* the onmessage callback that dispatched it and before any other task.    *)
(* `pending` holds that suspended handler; every task is guarded by        *)
(* MicrotasksDrained.  `await getUserMedia(...)` in startCoach and the     *)
(* promise of ai.live.connect are settled by later tasks, so other tasks   *)
(* interleave with them.                                                   *)
(***************************************************************************)
EXTENDS Integers, Sequences, FiniteSets

\* ---- bounds of the model
MaxSessions == 2    \* startCoach calls
MaxChunks == 2      \* audio chunks delivered to onAudio
MaxDur == 1         \* longest chunk, in ticks
MaxClock == 2       \* last value of the output clock
MaxFrames == 2      \* capture blocks delivered to onaudioprocess

VARIABLES
    audioContextOut,  \* App.tsx:39  TRUE once initAudio created the contexts
    now,              \* audioContextOut.current.currentTime
    nextStartTime,    \* App.tsx:41  the Playback Cursor
    sources,          \* every AudioBufferSourceNode created, in source.start order
    activeSources,    \* App.tsx:42  the Active Chunk Set (indices into sources)
    pending,          \* onAudio handlers suspended at `await decodeAudioData`
    sessionPromise,   \* App.tsx:40  0 is null, else an index into sessions
    sessions,         \* every promise returned by connectCoach, in startCoach order
    coachActive,      \* App.tsx:34
    isListening,      \* App.tsx:35
    micPending,       \* startCoach calls suspended at `await getUserMedia`
    processors,       \* ScriptProcessorNodes with onaudioprocess set, by startCoach
    nframes,          \* outbound frames created so far
    intSince,         \* history: onInterrupted ran since the last onAudio dispatch
    lastStart         \* history: the last source.start call: the clock at the call,
                      \* the session of its chunk, whether it is that session's first
                      \* chunk, whether onInterrupted ran between the previous chunk's
                      \* dispatch and its own (intBefore), and between its own
                      \* dispatch and the call (interrupted)
VARIABLE
    call              \* the codec function under study, its argument and its
                      \* outcome; NoCall while the application itself is explored

vars == <<audioContextOut, now, nextStartTime, sources, activeSources, pending,
          sessionPromise, sessions, coachActive, isListening, micPending,
          processors, nframes, intSince, lastStart, call>>

Max(a, b) == IF a >= b THEN a ELSE b

\* ---- the session promise and its callbacks

\* a session promise: its state, the reactions waiting for it to resolve, and
\* as history the calls made on the session (log) and the frames for which
\* onaudioprocess called .then on this promise (captured)
NewSession == [state |-> "connecting", thens |-> <<>>, log |-> <<>>, captured |-> <<>>]

\* a reaction passed to .then: kind and frame are the call it makes; early
\* (history) tells that it was registered while the promise was pending
NoFrame == [id |-> 0, proc |-> 0]
SendCb(f) == [kind |-> "send", frame |-> f, early |-> FALSE]
CloseCb == [kind |-> "close", frame |-> NoFrame, early |-> FALSE]
\* (history) the entry a transport error leaves in a session's log
ErrorMark == [kind |-> "error", frame |-> NoFrame, early |-> FALSE]

\* the fulfilled callback of a .then on the session: session.sendRealtimeInput(..)
\* (App.tsx:117, 433) or s.close() (App.tsx:131)
RunCb(s, cb) ==
    [s EXCEPT !.log = Append(@, cb),
              !.state = IF cb.kind = "close" /\ @ = "open" THEN "closed" ELSE @]

RECURSIVE RunAll(_, _)
RunAll(s, q) == IF q = <<>> THEN s ELSE RunAll(RunCb(s, Head(q)), Tail(q))

\* Promise reaction order: callbacks registered on a pending promise are kept
\* in registration order
RegisterThenLifo(q, cb) == <<cb>> \o q
RegisterThen(q, cb) == Append(q, cb)

\* sessionPromise.current.then(cb) on session record s
Then(s, cb) ==
    CASE s.state = "connecting" ->
             [s EXCEPT !.thens = RegisterThen(@, [cb EXCEPT !.early = TRUE])]
      [] s.state = "failed" -> s
      [] OTHER -> RunCb(s, cb)

\* ---- the playback scheduler (App.tsx:80-96)

\* a task may run only when no microtask is queued
MicrotasksDrained == pending = <<>>

\* App.tsx:82  nextStartTime = Math.max(nextStartTime, currentTime)
ClampCursorToClock(cursor, clock) == clock
ClampCursorKeep(cursor, clock) == cursor
ClampCursor(cursor, clock) == Max(cursor, clock)

\* App.tsx:88  nextStartTime += buffer.duration
AdvanceCursorNot(cursor, dur) == cursor
AdvanceCursor(cursor, dur) == cursor + dur

\* App.tsx:93, 133  activeSources.forEach(s => s.stop())
\* (stopped records the handler that made the call: "interrupt" or "stop")
StopAll(srcs, set, by) ==
    [i \in DOMAIN srcs |-> IF i \in set THEN [srcs[i] EXCEPT !.stopped = by] ELSE srcs[i]]

\* App.tsx:94, 134  activeSources.clear()
ClearedKeep(set) == set
Cleared(set) == {}

\* App.tsx:90  source.onended = () => activeSources.delete(source)
DeleteSourceNot(set, i) == set
DeleteSource(set, i) == set \ {i}

\* a source started with start(when) begins to sound at begin, which is when,
\* or the clock's time at the call if when is in the past, and ends dur later
End(src) == src.begin + src.dur

\* an inbound LiveServerMessage: audio is the chunk's duration (0: no inlineData)
Msgs == [audio : 0..MaxDur, interrupted : BOOLEAN, tin : BOOLEAN, tout : BOOLEAN]

\* geminiService.ts:55-68 onmessage, with the synchronous parts of the App.tsx
\* callbacks it calls: onAudio up to its await (80-83), onInterrupted (92-96),
\* onTranscription (97-100; the text it displays is not modelled)
OnMessage(s, m) ==
    /\ MicrotasksDrained
    /\ s \in DOMAIN sessions
    /\ sessions[s].state = "open"
    /\ m.audio > 0 => Len(sources) + Len(pending) < MaxChunks
    /\ LET audio == m.audio > 0 /\ audioContextOut
           cursor1 == IF audio THEN ClampCursor(nextStartTime, now) ELSE nextStartTime
           pending1 == IF audio
                         THEN Append(pending, [dur |-> m.audio, sess |-> s, intBefore |-> intSince])
                         ELSE pending
           int1 == IF audio THEN FALSE ELSE intSince
       IN /\ pending' = pending1
          /\ IF m.interrupted
               THEN /\ sources' = StopAll(sources, activeSources, "interrupt")
                    /\ activeSources' = Cleared(activeSources)
                    /\ nextStartTime' = 0
                    /\ intSince' = TRUE
               ELSE /\ nextStartTime' = cursor1
                    /\ intSince' = int1
                    /\ UNCHANGED <<sources, activeSources>>
    /\ isListening' = IF m.tin THEN FALSE ELSE isListening
    /\ UNCHANGED <<call, audioContextOut, now, sessionPromise, sessions, coachActive,
                   micPending, processors, nframes, lastStart>>

\* App.tsx:84-90  onAudio after its await: create the source, start it at the
\* cursor, advance the cursor, add the source to the set
OnAudioResume ==
    /\ pending /= <<>>
    /\ LET h == Head(pending)
           src == [when |-> nextStartTime, begin |-> Max(nextStartTime, now),
                   dur |-> h.dur, stopped |-> "", ended |-> FALSE]
       IN /\ sources' = Append(sources, src)
          /\ lastStart' = [clock |-> now, sess |-> h.sess,
                           first |-> lastStart.sess /= h.sess,
                           intBefore |-> h.intBefore, interrupted |-> intSince]
          /\ nextStartTime' = AdvanceCursor(nextStartTime, h.dur)
          /\ activeSources' = activeSources \cup {Len(sources) + 1}
    /\ pending' = Tail(pending)
    /\ UNCHANGED <<call, audioContextOut, now, sessionPromise, sessions, coachActive,
                   isListening, micPending, processors, nframes, intSince>>

\* App.tsx:90  the ended event of a source (playback reached its end, or stop()
\* was called on it) while the source is still in the set; for a source that
\* is no longer in the set the callback deletes nothing and changes no state
OnEnded(i) ==
    /\ MicrotasksDrained
    /\ i \in DOMAIN sources
    /\ i \in activeSources
    /\ sources[i].stopped /= "" \/ now >= End(sources[i])
    /\ sources' = [sources EXCEPT ![i].ended = TRUE]
    /\ activeSources' = DeleteSource(activeSources, i)
    /\ UNCHANGED <<call, audioContextOut, now, nextStartTime, pending, sessionPromise, sessions,
                   coachActive, isListening, micPending, processors,
                   nframes, intSince, lastStart>>

\* the output clock advances in real time once the context exists
Tick ==
    /\ MicrotasksDrained
    /\ audioContextOut
    /\ now < MaxClock
    /\ now' = now + 1
    /\ UNCHANGED <<call, audioContextOut, nextStartTime, sources, activeSources, pending,
                   sessionPromise, sessions, coachActive, isListening, micPending,
          processors, nframes, intSince, lastStart>>

\* ---- the session lifecycle and the capture pipeline (App.tsx:68-135)

\* App.tsx:75-101  startCoach up to `await getUserMedia`; the button offers it
\* only while the coach is not active (App.tsx:202)
StartCoach ==
    /\ MicrotasksDrained
    /\ ~coachActive
    /\ Len(sessions) < MaxSessions
    /\ audioContextOut' = TRUE
    /\ coachActive' = TRUE
    /\ sessions' = Append(sessions, NewSession)
    /\ sessionPromise' = Len(sessions) + 1
    /\ micPending' = micPending \cup {Len(sessions) + 1}
    /\ UNCHANGED <<call, now, nextStartTime, sources, activeSources, pending, isListening,
                   processors, nframes, intSince, lastStart>>

\* App.tsx:105-123  getUserMedia resolved: the processor is created and wired
MicGranted(g) ==
    /\ MicrotasksDrained
    /\ g \in micPending
    /\ micPending' = micPending \ {g}
    /\ processors' = processors \cup {g}
    /\ isListening' = TRUE
    /\ UNCHANGED <<call, audioContextOut, now, nextStartTime, sources, activeSources, pending,
                   sessionPromise, sessions, coachActive, nframes, intSince, lastStart>>

\* App.tsx:124-126  getUserMedia rejected: logged
MicDenied(g) ==
    /\ MicrotasksDrained
    /\ g \in micPending
    /\ micPending' = micPending \ {g}
    /\ UNCHANGED <<call, audioContextOut, now, nextStartTime, sources, activeSources, pending,
                   sessionPromise, sessions, coachActive, isListening, processors, nframes, intSince, lastStart>>

\* ai.live.connect resolved (geminiService.ts:51): the reactions registered on
\* the promise run in order
ConnectResolve(s) ==
    /\ MicrotasksDrained
    /\ s \in DOMAIN sessions
    /\ sessions[s].state = "connecting"
    /\ sessions' = [sessions EXCEPT ![s] =
                      RunAll([@ EXCEPT !.state = "open", !.thens = <<>>], @.thens)]
    /\ UNCHANGED <<call, audioContextOut, now, nextStartTime, sources, activeSources, pending,
                   sessionPromise, coachActive, isListening, micPending,
                   processors, nframes, intSince, lastStart>>

\* ai.live.connect rejected: nothing in App.tsx handles the rejection, the
\* fulfilment reactions never run
ConnectFail(s) ==
    /\ MicrotasksDrained
    /\ s \in DOMAIN sessions
    /\ sessions[s].state = "connecting"
    /\ sessions' = [sessions EXCEPT ![s].state = "failed", ![s].thens = <<>>]
    /\ UNCHANGED <<call, audioContextOut, now, nextStartTime, sources, activeSources, pending,
                   sessionPromise, coachActive, isListening, micPending,
                   processors, nframes, intSince, lastStart>>

\* geminiService.ts:69-70  onerror (and the onclose that follows it): console
\* output, nothing else; the transport delivers no further message
OnError(s) ==
    /\ MicrotasksDrained
    /\ s \in DOMAIN sessions
    /\ sessions[s].state = "open"
    /\ sessions' = [sessions EXCEPT ![s].state = "errored", ![s].log = Append(@, ErrorMark)]
    /\ UNCHANGED <<call, audioContextOut, now, nextStartTime, sources, activeSources, pending,
                   sessionPromise, coachActive, isListening, micPending,
                   processors, nframes, intSince, lastStart>>

\* App.tsx:109-119  onaudioprocess of processor p: quantize, encode, and hand
\* the frame to the current session promise, if there is one
Capture(p) ==
    /\ MicrotasksDrained
    /\ p \in processors
    /\ nframes < MaxFrames
    /\ nframes' = nframes + 1
    /\ LET f == [id |-> nframes + 1, proc |-> p]
       IN sessions' = IF sessionPromise = 0
                        THEN sessions
                        ELSE [sessions EXCEPT ![sessionPromise] =
                                [Then(@, SendCb(f)) EXCEPT !.captured = Append(@, f)]]
    /\ UNCHANGED <<call, audioContextOut, now, nextStartTime, sources, activeSources, pending,
                   sessionPromise, coachActive, isListening, micPending,
                   processors, intSince, lastStart>>

\* App.tsx:129-135  stopCoach (the coach button, reset, unmount)
StopThensNot(s) == s
StopThens(s) == Then(s, CloseCb)

StopCoach ==
    /\ MicrotasksDrained
    /\ coachActive' = FALSE
    /\ sessions' = IF sessionPromise = 0
                     THEN sessions
                     ELSE [sessions EXCEPT ![sessionPromise] = StopThens(@)]
    /\ sessionPromise' = 0
    /\ sources' = StopAll(sources, activeSources, "stop")
    /\ activeSources' = Cleared(activeSources)
    /\ UNCHANGED <<call, audioContextOut, now, nextStartTime, pending, isListening,
                   micPending, processors, nframes, intSince, lastStart>>

appVars == <<audioContextOut, now, nextStartTime, sources, activeSources, pending,
             sessionPromise, sessions, coachActive, isListening, micPending,
             processors, nframes, intSince, lastStart>>

NoCall == [fn |-> "none"]

AppInit ==
    /\ audioContextOut = FALSE
    /\ now = 0
    /\ nextStartTime = 0
    /\ sources = <<>>
    /\ activeSources = {}
    /\ pending = <<>>
    /\ sessionPromise = 0
    /\ sessions = <<>>
    /\ coachActive = FALSE
    /\ isListening = FALSE
    /\ micPending = {}
    /\ processors = {}
    /\ nframes = 0
    /\ intSince = FALSE
    /\ lastStart = [clock |-> 0, sess |-> 0, first |-> FALSE, intBefore |-> FALSE,
                    interrupted |-> FALSE]

Init ==
    /\ AppInit
    /\ call = NoCall

Next ==
    \/ StartCoach
    \/ StopCoach
    \/ \E g \in 1..MaxSessions : MicGranted(g)
    \/ \E g \in 1..MaxSessions : MicDenied(g)
    \/ \E s \in 1..MaxSessions : ConnectResolve(s)
    \/ \E s \in 1..MaxSessions : ConnectFail(s)
    \/ \E s \in 1..MaxSessions : OnError(s)
    \/ \E s \in 1..MaxSessions, m \in Msgs : OnMessage(s, m)
    \/ OnAudioResume
    \/ \E i \in 1..MaxChunks : OnEnded(i)
    \/ \E p \in 1..MaxSessions : Capture(p)
    \/ Tick

Spec == Init /\ [][Next]_vars

\* The two directions are independent: the inbound handlers and the clock
\* touch only the playback state and the UI flags, the microphone and the
\* capture callbacks only the reactions and the frames of the session promise.
\* Each direction is explored with the session lifecycle they share; the
\* properties below that hold of one direction hold of Spec as well, at the
\* bounds above.
PlaybackMsgs == {m \in Msgs : ~m.tin /\ ~m.tout}

NextPlayback ==
    \/ StartCoach
    \/ StopCoach
    \/ \E s \in 1..MaxSessions : ConnectResolve(s)
    \/ \E s \in 1..MaxSessions, m \in PlaybackMsgs : OnMessage(s, m)
    \/ OnAudioResume
    \/ \E i \in 1..MaxChunks : OnEnded(i)
    \/ Tick

SpecPlayback == Init /\ [][NextPlayback]_vars

NextCapture ==
    \/ StartCoach
    \/ StopCoach
    \/ \E g \in 1..MaxSessions : MicGranted(g)
    \/ \E g \in 1..MaxSessions : MicDenied(g)
    \/ \E s \in 1..MaxSessions : ConnectResolve(s)
    \/ \E s \in 1..MaxSessions : ConnectFail(s)
    \/ \E s \in 1..MaxSessions : OnError(s)
    \/ \E p \in 1..MaxSessions : Capture(p)

SpecCapture == Init /\ [][NextCapture]_vars

\* ---- properties of the playback scheduler, checked under SpecPlayback

Last(q) == q[Len(q)]

\* the two chunks most recently started, when no onInterrupted ran between the
\* dispatch of the first and the start of the second
Chunk1 == sources[Len(sources) - 1]
Chunk2 == sources[Len(sources)]
ConsecutiveUninterrupted ==
    /\ Len(sources) >= 2
    /\ ~lastStart.intBefore
    /\ ~lastStart.interrupted

\* the cursor has not been touched since the last source.start call
CursorSettled == pending = <<>> /\ ~intSince

\* C1 as stated: two chunks delivered consecutively with no interruption
\* between them: the second starts exactly where the first ends, their
\* playback intervals do not overlap, and the cursor has advanced by d1 + d2
\* from the start of the first.
C1_BackToBackAlways ==
    ConsecutiveUninterrupted =>
        /\ Chunk2.when = Chunk1.when + Chunk1.dur
        /\ End(Chunk1) <= Chunk2.begin
        /\ CursorSettled => nextStartTime = Chunk1.when + Chunk1.dur + Chunk2.dur

\* C1 amended: two chunks delivered consecutively with no interruption between
\* them: the second starts at the later of the first one's end and the clock
\* at its delivery, so exactly at the first one's end whenever the clock has
\* not passed it; the intervals never overlap; the cursor then stands at the
\* second chunk's start plus its duration, which is d1 + d2 past the start of
\* the first when the clock had not passed the first one's end.
C1_BackToBackUnlessStale ==
    ConsecutiveUninterrupted =>
        /\ Chunk2.when = Max(Chunk1.when + Chunk1.dur, lastStart.clock)
        /\ lastStart.clock <= Chunk1.when + Chunk1.dur
             => Chunk2.when = Chunk1.when + Chunk1.dur
        /\ End(Chunk1) <= Chunk2.begin
        /\ CursorSettled => nextStartTime = Chunk2.when + Chunk2.dur
        /\ CursorSettled /\ lastStart.clock <= Chunk1.when + Chunk1.dur
             => nextStartTime = Chunk1.when + Chunk1.dur + Chunk2.dur

C1_Witness ==
    /\ ConsecutiveUninterrupted
    /\ CursorSettled
    /\ lastStart.clock <= Chunk1.when + Chunk1.dur
    /\ Chunk2.when = Chunk1.when + Chunk1.dur
    /\ Chunk1.stopped = "" /\ Chunk2.stopped = ""

\* C2: once onInterrupted has run, no chunk whose audio-chunk event was
\* dispatched before it is started afterwards or is in the Active Chunk Set:
\* no source.start call follows an onInterrupted that ran after the dispatch
\* of its chunk.
C2_NoStartAfterInterrupt == sources /= <<>> => ~lastStart.interrupted

\* the interruption step: an inbound message flagged interrupted
InterruptStep == \E s \in 1..MaxSessions, m \in Msgs : m.interrupted /\ OnMessage(s, m)

\* C3: onInterrupted, in any state, stops every chunk of the Active Chunk Set
\* (each of them has been started, so stop() cannot throw), leaves the set
\* empty and the cursor at 0; on an empty set it changes no source.
C3_InterruptClears ==
    [][InterruptStep =>
         /\ activeSources \subseteq DOMAIN sources
         /\ \A i \in activeSources : sources'[i].stopped /= ""
         /\ activeSources' = {}
         /\ nextStartTime' = 0
         /\ activeSources = {} => sources' = sources]_vars

C3_Witness ==
    /\ \E i \in DOMAIN sources : sources[i].stopped = "interrupt"
    /\ activeSources = {}
    /\ nextStartTime = 0
    /\ intSince

\* C4: the cursor never decreases from one state to the next, except in an
\* interruption step.
C4_CursorMonotone == [][nextStartTime' >= nextStartTime \/ InterruptStep]_vars

\* a stop and a restart have left the cursor where the stopped chunk put it
C4_Witness ==
    /\ \E i \in DOMAIN sources : sources[i].stopped = "stop"
    /\ Len(sessions) >= 2
    /\ nextStartTime > 0

\* C5 as stated: in every state the cursor is at least the clock's current
\* time, and every chunk is started at a time not earlier than the clock at
\* the source.start call.
C5_CursorAheadAlways ==
    /\ nextStartTime >= now
    /\ sources /= <<>> => Last(sources).when >= lastStart.clock

\* C5 amended: the cursor is at least the clock's current time from onAudio's
\* clamp until the source.start call, unless onInterrupted ran in between;
\* every chunk is started at a time not earlier than the clock at the call,
\* except a chunk whose start follows such an interruption, which is started
\* at time 0.
C5_CursorAheadAfterClamp ==
    /\ pending /= <<>> /\ ~intSince => nextStartTime >= now
    /\ sources /= <<>> =>
         IF lastStart.interrupted
           THEN Last(sources).when = 0
           ELSE Last(sources).when >= lastStart.clock

C5_Witness ==
    /\ pending /= <<>>
    /\ ~intSince
    /\ now > 0
    /\ nextStartTime = now

\* C6: the Active Chunk Set holds exactly the chunks that were started and
\* whose ended callback has not fired and that no interruption or stop has
\* stopped.
C6_ActiveExact ==
    activeSources = {i \in DOMAIN sources : sources[i].stopped = "" /\ ~sources[i].ended}

C6_Witness ==
    /\ \E i \in DOMAIN sources : sources[i].ended
    /\ \E i \in DOMAIN sources : sources[i].stopped /= ""
    /\ activeSources = {}

\* C10: after stopCoach and a new startCoach the new session starts from a
\* clean slate: the Active Chunk Set is empty until the new session delivers
\* a chunk, the first chunk of the new session starts at the clock's current
\* time (no cursor left over), and no chunk of an earlier session is handled
\* while the new session is current.  (A first chunk whose start follows an
\* interruption of its own message is C2's case and is left out of the
\* second part.)
C10_SetEmptyAtRestart ==
    Len(sessions) >= 2 /\ sessionPromise = Len(sessions)
      /\ lastStart.sess /= sessionPromise /\ pending = <<>>
        => activeSources = {}
C10_NoLeftoverCursor ==
    sources /= <<>> /\ lastStart.first /\ lastStart.sess >= 2 /\ ~lastStart.interrupted
        => Last(sources).when = lastStart.clock
C10_NoStaleEvent ==
    pending /= <<>> /\ sessionPromise /= 0 => Head(pending).sess = sessionPromise
C10_CleanSlate ==
    /\ C10_SetEmptyAtRestart
    /\ C10_NoLeftoverCursor
    /\ C10_NoStaleEvent

\* ---- properties of the capture pipeline and the session lifecycle, checked
\* ---- under SpecCapture

\* the frames of the send calls in a sequence of reactions or of logged calls
RECURSIVE SentFrames(_)
SentFrames(q) ==
    IF q = <<>> THEN <<>>
    ELSE IF Head(q).kind = "send" THEN <<Head(q).frame>> \o SentFrames(Tail(q))
    ELSE SentFrames(Tail(q))

\* stopCoach has run for session s: sessionPromise.current has left it
Stopped(s) == s /= sessionPromise

\* C7: no capture block is dropped or reordered because the session was still
\* connecting: for every session whose connect has not failed, the frames
\* sent to it so far followed by the frames still waiting for it to open are
\* exactly the frames captured for it, in capture order; once it is open
\* none is left waiting.
C7_FramesDispatchedInOrder ==
    \A s \in DOMAIN sessions :
        sessions[s].state /= "failed" =>
            /\ sessions[s].captured = SentFrames(sessions[s].log) \o SentFrames(sessions[s].thens)
            /\ sessions[s].state /= "connecting" => sessions[s].thens = <<>>

\* a session that received, in capture order, two frames captured while it was
\* connecting
C7_Witness ==
    \E s \in DOMAIN sessions :
        /\ sessions[s].state = "open"
        /\ Len(sessions[s].log) >= 2
        /\ sessions[s].log[1].kind = "send" /\ sessions[s].log[1].early
        /\ sessions[s].log[2].kind = "send" /\ sessions[s].log[2].early
        /\ sessions[s].log[1].frame.id < sessions[s].log[2].frame.id

\* C8: after stopCoach the session of the preceding startCoach is closed:
\* close() has been called on it as soon as its connect has resolved (while it
\* is connecting the call waits as the last reaction), and no frame is sent
\* to it after close().
C8_StoppedSessionClosed ==
    \A s \in DOMAIN sessions :
        /\ Stopped(s) /\ sessions[s].state \notin {"connecting", "failed"}
             => \E i \in DOMAIN sessions[s].log : sessions[s].log[i].kind = "close"
        /\ Stopped(s) /\ sessions[s].state = "connecting"
             => sessions[s].thens /= <<>> /\ Last(sessions[s].thens).kind = "close"
        /\ \A i, j \in DOMAIN sessions[s].log :
             i < j /\ sessions[s].log[i].kind = "close" => sessions[s].log[j].kind /= "send"

\* a session stopped while connecting that was sent a frame and then closed
\* when it opened
C8_Witness ==
    \E s \in DOMAIN sessions :
        /\ Stopped(s)
        /\ sessions[s].state = "closed"
        /\ Len(sessions[s].log) >= 2
        /\ sessions[s].log[1].kind = "send"
        /\ Last(sessions[s].log).kind = "close" /\ Last(sessions[s].log).early

\* C9: a transport error or a failed connect terminates the session and the
\* capture attempt: the coach is no longer reported active for that session,
\* and no captured frame is forwarded to it after the error.
C9_ErrorTerminatesSession ==
    \A s \in DOMAIN sessions :
        sessions[s].state \in {"errored", "failed"} =>
            /\ ~(coachActive /\ sessionPromise = s)
            /\ \A i, j \in DOMAIN sessions[s].log :
                 i < j /\ sessions[s].log[i].kind = "error" => sessions[s].log[j].kind /= "send"

\* C15: after stopCoach, until the next startCoach, the Active Chunk Set is
\* empty and stays empty and no audio source is started: no onAudio handler
\* is suspended across stopCoach, no session is left open to deliver a chunk,
\* and no step taken while sessionPromise.current is null starts a source.
C15_SilentAfterStop ==
    [][/\ sessionPromise' = 0 =>
             /\ activeSources' = {}
             /\ pending' = <<>>
             /\ \A s \in DOMAIN sessions' : sessions'[s].state /= "open"
       /\ sessionPromise = 0 /\ sessionPromise' = 0 => sources' = sources]_vars

\* stopCoach has stopped a chunk that was playing and closed the session that
\* delivered it
C15_Witness ==
    /\ sessionPromise = 0
    /\ \E i \in DOMAIN sources : sources[i].stopped = "stop"
    /\ \E s \in DOMAIN sessions : sessions[s].state = "closed"
    /\ activeSources = {}

\* C16: at most one capture processor forwards frames at a time: every frame
\* sent to a session, or waiting for it to open, comes from the processor
\* created by the startCoach that opened that session.
C16_OwnProcessorOnly ==
    \A s \in DOMAIN sessions :
        /\ \A i \in DOMAIN sessions[s].log :
             sessions[s].log[i].kind = "send" => sessions[s].log[i].frame.proc = s
        /\ \A i \in DOMAIN sessions[s].thens :
             sessions[s].thens[i].kind = "send" => sessions[s].thens[i].frame.proc = s

\* ------------------------------------------------------------------------
\* geminiService.ts:7-24  encode and decode.  A string is a sequence of
\* one-character strings; a binary string (the argument of btoa, the result
\* of atob) and a Uint8Array are sequences of numbers.

MaxBytes == 3    \* longest byte sequence given to encode
MaxText == 5     \* longest string given to decode

\* the byte values and the characters the inputs are drawn from: both ends
\* and both alternating bit patterns of a byte; three alphabet characters,
\* the padding character, a white space and a character of neither kind
ByteSamples == {0, 1, 85, 128, 170, 255}
TextSamples == {"A", "Q", "/", "=", " ", "*"}

Seqs(S, n) == UNION {[1..k -> S] : k \in 0..n}

Alphabet ==
    << "A", "B", "C", "D", "E", "F", "G", "H", "I", "J", "K", "L", "M",
       "N", "O", "P", "Q", "R", "S", "T", "U", "V", "W", "X", "Y", "Z",
       "a", "b", "c", "d", "e", "f", "g", "h", "i", "j", "k", "l", "m",
       "n", "o", "p", "q", "r", "s", "t", "u", "v", "w", "x", "y", "z",
       "0", "1", "2", "3", "4", "5", "6", "7", "8", "9", "+", "/" >>

AlphabetChars == {Alphabet[i] : i \in DOMAIN Alphabet}
Whitespace == {" ", "\t", "\n", "\f", "\r"}

Symbol(v) == Alphabet[v + 1]
Value(c) == (CHOOSE i \in DOMAIN Alphabet : Alphabet[i] = c) - 1

Failure == [ok |-> FALSE, value |-> <<>>]
Success(v) == [ok |-> TRUE, value |-> v]

\* geminiService.ts:12  btoa: three bytes become four symbols, a last group
\* of one or two bytes is padded with "="
RECURSIVE Groups(_)
Groups(s) ==
    IF Len(s) = 0 THEN <<>>
    ELSE IF Len(s) = 1
    THEN << Symbol(s[1] \div 4), Symbol((s[1] % 4) * 16), "=", "=" >>
    ELSE IF Len(s) = 2
    THEN << Symbol(s[1] \div 4), Symbol((s[1] % 4) * 16 + s[2] \div 16),
            Symbol((s[2] % 16) * 4), "=" >>
    ELSE << Symbol(s[1] \div 4), Symbol((s[1] % 4) * 16 + s[2] \div 16),
            Symbol((s[2] % 16) * 4 + s[3] \div 64), Symbol(s[3] % 64) >>
         \o Groups(SubSeq(s, 4, Len(s)))

\* btoa throws InvalidCharacterError on a character above U+00FF
Btoa(s) ==
    IF \E i \in DOMAIN s : s[i] > 255 THEN Failure ELSE Success(Groups(s))

\* geminiService.ts:10  String.fromCharCode
FromCharCode(n) == n % 65536

\* geminiService.ts:7-14
encode(bytes) == Btoa([i \in DOMAIN bytes |-> FromCharCode(bytes[i])])

\* geminiService.ts:17  atob, the forgiving-base64 decode: white space is
\* removed; one or two trailing "=" are removed if the length is then a
\* multiple of 4; a length of 1 modulo 4 or a character outside the alphabet
\* throws InvalidCharacterError; the bits of an incomplete last group that
\* do not fill a byte are dropped
StripSpace(t) == SelectSeq(t, LAMBDA c : c \notin Whitespace)

StripPadNot(t) == t
StripPad(t) ==
    IF Len(t) > 0 /\ Len(t) % 4 = 0
    THEN IF t[Len(t)] = "=" /\ t[Len(t) - 1] = "=" THEN SubSeq(t, 1, Len(t) - 2)
         ELSE IF t[Len(t)] = "=" THEN SubSeq(t, 1, Len(t) - 1)
         ELSE t
    ELSE t

RECURSIVE Ungroup(_)
Ungroup(v) ==
    IF Len(v) < 2 THEN <<>>
    ELSE IF Len(v) = 2 THEN << v[1] * 4 + v[2] \div 16 >>
    ELSE IF Len(v) = 3
    THEN << v[1] * 4 + v[2] \div 16, (v[2] % 16) * 16 + v[3] \div 4 >>
    ELSE << v[1] * 4 + v[2] \div 16, (v[2] % 16) * 16 + v[3] \div 4,
            (v[3] % 4) * 64 + v[4] >>
         \o Ungroup(SubSeq(v, 5, Len(v)))

Atob(t) ==
    LET d == StripPad(StripSpace(t))
    IN  IF Len(d) % 4 = 1 \/ \E i \in DOMAIN d : d[i] \notin AlphabetChars
        THEN Failure
        ELSE Success(Ungroup([i \in DOMAIN d |-> Value(d[i])]))

\* geminiService.ts:16-24  charCodeAt into a Uint8Array of the same length;
\* the exception of atob is not caught
decode(base64) ==
    LET binaryString == Atob(base64)
    IN  IF binaryString.ok
        THEN Success([i \in DOMAIN binaryString.value |-> binaryString.value[i] % 256])
        ELSE Failure

\* One call under study: encode of a byte sequence, decode of its result
\* (src is then the byte sequence it came from), or decode of any string.
EncodeOf(b) ==
    [fn |-> "encode", arg |-> b, done |-> FALSE, res |-> Failure,
     own |-> FALSE, src |-> <<>>]
DecodeOf(t, own, src) ==
    [fn |-> "decode", arg |-> t, done |-> FALSE, res |-> Failure,
     own |-> own, src |-> src]

InitCodec ==
    /\ AppInit
    /\ \/ \E b \in Seqs(ByteSamples, MaxBytes) : call = EncodeOf(b)
       \/ \E t \in Seqs(TextSamples, MaxText) : call = DecodeOf(t, FALSE, <<>>)

CallEncode ==
    /\ call.fn = "encode" /\ ~call.done
    /\ call' = [call EXCEPT !.done = TRUE, !.res = encode(call.arg)]
    /\ UNCHANGED appVars

PassToDecode ==
    /\ call.fn = "encode" /\ call.done /\ call.res.ok
    /\ call' = DecodeOf(call.res.value, TRUE, call.arg)
    /\ UNCHANGED appVars

CallDecode ==
    /\ call.fn = "decode" /\ ~call.done
    /\ call' = [call EXCEPT !.done = TRUE, !.res = decode(call.arg)]
    /\ UNCHANGED appVars

NextCodec ==
    \/ CallEncode
    \/ PassToDecode
    \/ CallDecode

SpecCodec == InitCodec /\ [][NextCodec]_vars

Pads(t) == Cardinality({i \in DOMAIN t : t[i] = "="})

\* C11: encode always succeeds and yields exactly 4 * ceil(len / 3)
\* characters, all of the alphabet except at most 2 trailing padding
\* characters; decode of that text succeeds and returns the bytes encoded.
C11_RoundTrip ==
    /\ call.fn = "encode" /\ call.done =>
         /\ call.res.ok
         /\ Len(call.res.value) = 4 * ((Len(call.arg) + 2) \div 3)
         /\ Pads(call.res.value) <= 2
         /\ \A i \in DOMAIN call.res.value :
              \/ call.res.value[i] \in AlphabetChars
              \/ call.res.value[i] = "=" /\ i > Len(call.res.value) - 2
    /\ call.fn = "decode" /\ call.done /\ call.own =>
         /\ call.res.ok
         /\ call.res.value = call.src

\* a two-byte sequence, whose text ends in one padding character, has come
\* back from decode
C11_Witness ==
    /\ call.fn = "decode" /\ call.done /\ call.own
    /\ Len(call.src) = 2
    /\ Pads(call.arg) = 1
    /\ call.res.value = call.src

\* C12: decode fails for every string whose length is not a multiple of 4
\* and for every string with a character that is neither of the alphabet nor
\* the padding character; it never returns bytes for such a string.
C12_DecodeRejectsMalformed ==
    /\ call.fn = "decode" /\ call.done /\ Len(call.arg) % 4 /= 0 => ~call.res.ok
    /\ call.fn = "decode" /\ call.done
          /\ (\E i \in DOMAIN call.arg : call.arg[i] \notin AlphabetChars \cup {"="})
          => ~call.res.ok

\* ------------------------------------------------------------------------
\* geminiService.ts:26-43  decodeAudioData.  A sample of an AudioBuffer is a
\* fraction [num, den]; an AudioBuffer is a sequence of channels, each a
\* sequence of samples.

MaxPcmBytes == 6    \* longest payload given to decodeAudioData
MaxChannels == 2    \* largest numChannels

PcmScale == 32768   \* geminiService.ts:39  the divisor 32768.0

\* the byte values payloads are drawn from: zero, the low bit, the sign bit
\* and all bits set
PcmSamples == {0, 1, 128, 255}

Fraction(n, d) == [num |-> n, den |-> d]

\* two's complement value of a 16-bit pattern
ToInt16(v) == LET u == v % 65536 IN IF u >= 32768 THEN u - 65536 ELSE u

\* geminiService.ts:32  new Int16Array(data.buffer): RangeError unless the
\* byte length is a multiple of 2; element k is bytes 2k (low) and 2k+1 (high)
Int16Array(data) ==
    IF Len(data) % 2 /= 0 THEN Failure
    ELSE Success([k \in 1..(Len(data) \div 2) |->
                     ToInt16(data[2 * k - 1] + 256 * data[2 * k])])

\* geminiService.ts:34  ctx.createBuffer(numChannels, frameCount, sampleRate):
\* frameCount = length / numChannels is converted to an unsigned long, which
\* drops its fraction; NotSupportedError if there is no channel or no frame
CreateBuffer(numChannels, length) ==
    IF numChannels < 1 \/ length \div numChannels < 1 THEN Failure
    ELSE Success([c \in 1..numChannels |->
                     [i \in 1..(length \div numChannels) |-> Fraction(0, PcmScale)]])

\* geminiService.ts:39  channelData[i] = dataInt16[i * numChannels + channel]
\* / 32768.0; a store past the end of channelData has no effect
StoreSample(channelData, i, dataInt16, k) ==
    IF i + 1 \in DOMAIN channelData
    THEN [channelData EXCEPT ![i + 1] = Fraction(dataInt16[k + 1], PcmScale)]
    ELSE channelData

\* geminiService.ts:38-40  for (i = 0; i < frameCount; i++), frameCount being
\* the unrounded quotient
RECURSIVE FillChannel(_, _, _, _, _)
FillChannel(channelData, dataInt16, numChannels, channel, i) ==
    IF i * numChannels < Len(dataInt16)
    THEN FillChannel(StoreSample(channelData, i, dataInt16, i * numChannels + channel),
                     dataInt16, numChannels, channel, i + 1)
    ELSE channelData

\* geminiService.ts:26-43
decodeAudioData(data, numChannels) ==
    LET dataInt16 == Int16Array(data)
    IN  IF ~dataInt16.ok THEN Failure
        ELSE LET buffer == CreateBuffer(numChannels, Len(dataInt16.value))
             IN  IF ~buffer.ok THEN Failure
                 ELSE Success([c \in 1..numChannels |->
                                 FillChannel(buffer.value[c], dataInt16.value,
                                             numChannels, c - 1, 0)])

DecodeAudioOf(data, numChannels) ==
    [fn |-> "decodeAudioData", arg |-> data, numChannels |-> numChannels,
     done |-> FALSE, res |-> Failure]

InitAudio ==
    /\ AppInit
    /\ \E data \in Seqs(PcmSamples, MaxPcmBytes), n \in 1..MaxChannels :
         call = DecodeAudioOf(data, n)

CallDecodeAudioData ==
    /\ call.fn = "decodeAudioData" /\ ~call.done
    /\ call' = [call EXCEPT !.done = TRUE,
                            !.res = decodeAudioData(call.arg, call.numChannels)]
    /\ UNCHANGED appVars

NextAudio == CallDecodeAudioData

SpecAudio == InitAudio /\ [][NextAudio]_vars

\* the little-endian signed 16-bit sample at index k (from 0) of a payload
SampleAt(data, k) ==
    LET u == data[2 * k + 1] + 256 * data[2 * k + 2]
    IN  IF u >= 32768 THEN u - 65536 ELSE u

\* C13: decodeAudioData fails whenever the byte length is not divisible by
\* 2 * channelCount; otherwise it returns byteLength / 2 / channelCount
\* frames, sample i of channel c being the little-endian 16-bit sample at
\* index i * channelCount + c divided by 32768.  (The empty payload, which
\* createBuffer rejects for having no frame, is left aside here so that the
\* property speaks of the framing check alone.)
C13_FramedOrFails ==
    call.fn = "decodeAudioData" /\ call.done /\ Len(call.arg) > 0 =>
        IF Len(call.arg) % (2 * call.numChannels) /= 0
        THEN ~call.res.ok
        ELSE /\ call.res.ok
             /\ Len(call.res.value) = call.numChannels
             /\ \A c \in 1..call.numChannels :
                  /\ Len(call.res.value[c]) = (Len(call.arg) \div 2) \div call.numChannels
                  /\ \A i \in DOMAIN call.res.value[c] :
                       call.res.value[c][i] =
                         Fraction(SampleAt(call.arg, (i - 1) * call.numChannels + c - 1),
                                  PcmScale)

\* ------------------------------------------------------------------------
\* App.tsx:109-115 and geminiService.ts:26-43  a microphone sample through
\* quantization and back.  The input sample x is the fraction x / Grid, the
\* grid having Step points to one step 1/32768 of the reconstruction; every
\* grid value is a float, and the products below are exact in the code's
\* double arithmetic and within the model checker's integers.

MaxOver == 4        \* grid steps explored beyond -1 and 1

Int16Max == 32767   \* App.tsx:113  the factor 0x7FFF

Grid == PcmScale + PcmScale
Step == Grid \div PcmScale

Min(a, b) == IF a < b THEN a ELSE b
Abs(a) == IF a < 0 THEN -a ELSE a

\* App.tsx:113  Math.max(-1, Math.min(1, x))
ClampSample(x) == Max(-Grid, Min(Grid, x))

\* App.tsx:113  a number stored into an Int16Array loses its fraction
\* (toward zero) and is reduced modulo 2^16
Truncate(n, d) == IF n >= 0 THEN n \div d ELSE -((-n) \div d)

\* App.tsx:111-114  pcm16[i] = clamp(x) * 0x7FFF
Quantize(x) == ToInt16(Truncate(ClampSample(x) * Int16Max, Grid))

\* App.tsx:115  new Uint8Array(pcm16.buffer): low byte first
Int16BytesHighFirst(q) == << (q % 65536) \div 256, (q % 65536) % 256 >>
Int16Bytes(q) == << (q % 65536) % 256, (q % 65536) \div 256 >>

PcmOf(x) ==
    [fn |-> "pcm", stage |-> "float", x |-> x, pcm16 |-> 0, bytes |-> <<>>,
     res |-> Failure]

InitPcm ==
    /\ AppInit
    /\ \E x \in (-(Grid + MaxOver)..(Grid + MaxOver)) \cup {-2 * Grid, 2 * Grid} :
         call = PcmOf(x)

\* App.tsx:109-115  one sample of onaudioprocess
CallQuantize ==
    /\ call.fn = "pcm" /\ call.stage = "float"
    /\ call' = [call EXCEPT !.stage = "pcm16",
                            !.pcm16 = Quantize(call.x),
                            !.bytes = Int16Bytes(Quantize(call.x))]
    /\ UNCHANGED appVars

\* geminiService.ts:26-43  the bytes as one channel
CallReconstruct ==
    /\ call.fn = "pcm" /\ call.stage = "pcm16"
    /\ call' = [call EXCEPT !.stage = "back", !.res = decodeAudioData(call.bytes, 1)]
    /\ UNCHANGED appVars

NextPcm ==
    \/ CallQuantize
    \/ CallReconstruct

SpecPcm == InitPcm /\ [][NextPcm]_vars

\* the reconstructed sample, and its distance from the clamped input in units
\* of 1 / Grid
Back == call.res.value[1][1]
Distance == Abs(ClampSample(call.x) - Back.num * Step)

====
